---- MODULE Spec2Model ----
(***************************************************************************)
(* Model of the storage client of azure-sdk-for-go (package storage):      *)
(* request canonicalization and signing, Client.exec, the table entity     *)
(* operations and the service error decoders.                              *)
(*                                                                         *)
(* A Go string is a sequence of one-character strings, so that the         *)
(* canonicalization code can be followed character by character.  A Go     *)
(* map is a function, and the order in which `range` visits it is an       *)
(* input of the action that iterates it.                                   *)
(***************************************************************************)
EXTENDS Integers, Sequences, FiniteSets, TLC

VARIABLES
    sign,   \* the signing call in progress: its inputs and what it returned
    call,   \* the client operation in progress: its inputs and its outcome
    dec,    \* the error-decoder call in progress
    ent     \* the jsonMarshal call in progress: the entity and what it returned

vars == <<sign, call, dec, ent>>

\* No call in progress.
Idle == [op |-> "idle"]

Init == sign = Idle /\ call = Idle /\ dec = Idle /\ ent = Idle

-----------------------------------------------------------------------------
(* Characters and strings *)

Lower == <<"a","b","c","d","e","f","g","h","i","j","k","l","m",
           "n","o","p","q","r","s","t","u","v","w","x","y","z">>
Upper == <<"A","B","C","D","E","F","G","H","I","J","K","L","M",
           "N","O","P","Q","R","S","T","U","V","W","X","Y","Z">>
Digit == <<"0","1","2","3","4","5","6","7","8","9">>
HexUpper == <<"0","1","2","3","4","5","6","7","8","9","A","B","C","D","E","F">>
HexLower == <<"0","1","2","3","4","5","6","7","8","9","a","b","c","d","e","f">>

Range(s) == { s[i] : i \in 1..Len(s) }
IndexOf(s, c) == CHOOSE i \in 1..Len(s) : s[i] = c

\* The characters other than letters and digits, each with its byte value.
Punct == { <<"\n", 10>>, <<" ", 32>>, <<"$", 36>>, <<"%", 37>>, <<"&", 38>>,
           <<"'", 39>>, <<"(", 40>>, <<")", 41>>, <<"*", 42>>, <<"+", 43>>,
           <<",", 44>>, <<"-", 45>>, <<".", 46>>, <<"/", 47>>, <<":", 58>>,
           <<";", 59>>, <<"=", 61>>, <<"?", 63>>, <<"@", 64>>, <<"_", 95>>,
           <<"~", 126>>, <<"#", 35>> }

Chars == Range(Lower) \cup Range(Upper) \cup Range(Digit) \cup { p[1] : p \in Punct }

\* The byte value of an ASCII character.
Ord == [ c \in Chars |->
           IF c \in Range(Lower) THEN 96 + IndexOf(Lower, c)
           ELSE IF c \in Range(Upper) THEN 64 + IndexOf(Upper, c)
           ELSE IF c \in Range(Digit) THEN 47 + IndexOf(Digit, c)
           ELSE (CHOOSE p \in Punct : p[1] = c)[2] ]

\* The character of a byte value.
Chr(n) == CHOOSE c \in Chars : Ord[c] = n
IsChr(n) == \E c \in Chars : Ord[c] = n

\* Go's < on strings: byte-wise lexicographic order.
RECURSIVE StrLess(_, _)
StrLess(a, b) ==
    IF b = <<>> THEN FALSE
    ELSE IF a = <<>> THEN TRUE
    ELSE IF Ord[Head(a)] # Ord[Head(b)] THEN Ord[Head(a)] < Ord[Head(b)]
    ELSE StrLess(Tail(a), Tail(b))

\* strings.HasPrefix
HasPrefix(s, p) == Len(s) >= Len(p) /\ SubSeq(s, 1, Len(p)) = p

\* strings.ToLower, on ASCII
ToLowerChar(c) == IF c \in Range(Upper) THEN Lower[IndexOf(Upper, c)] ELSE c
ToLower(s) == [ i \in 1..Len(s) |-> ToLowerChar(s[i]) ]

\* strings.TrimSpace: leading and trailing white space removed
IsSpace(c) == c \in {" ", "\n"}
RECURSIVE TrimLeft(_)
TrimLeft(s) == IF s # <<>> /\ IsSpace(Head(s)) THEN TrimLeft(Tail(s)) ELSE s
RECURSIVE TrimRight(_)
TrimRight(s) ==
    IF s # <<>> /\ IsSpace(s[Len(s)]) THEN TrimRight(SubSeq(s, 1, Len(s) - 1)) ELSE s
TrimSpace(s) == TrimRight(TrimLeft(s))

\* sort.Strings with the comparison reversed.
RECURSIVE SortStrings_descending(_)
SortStrings_descending(S) ==
    IF S = {} THEN <<>>
    ELSE LET m == CHOOSE x \in S : \A y \in S : y = x \/ StrLess(y, x)
         IN <<m>> \o SortStrings_descending(S \ {m})

\* sort.Strings: the strings of a set in ascending order
RECURSIVE SortStrings(_)
SortStrings(S) ==
    IF S = {} THEN <<>>
    ELSE LET m == CHOOSE x \in S : \A y \in S : y = x \/ StrLess(x, y)
         IN <<m>> \o SortStrings(S \ {m})

\* strings.Index of a character: its first position, 0 when absent.
Index(s, c) ==
    IF c \in Range(s) THEN CHOOSE i \in 1..Len(s) : s[i] = c /\ \A j \in 1..(i-1) : s[j] # c
    ELSE 0

\* strings.Split on a character: the pieces of s between the occurrences of
\* c (one piece more than there are occurrences).
RECURSIVE SplitOn(_, _)
SplitOn(s, c) ==
    LET i == Index(s, c)
    IN IF i = 0 THEN <<s>>
       ELSE <<SubSeq(s, 1, i - 1)>> \o SplitOn(SubSeq(s, i + 1, Len(s)), c)

NL == <<"\n">>


-----------------------------------------------------------------------------
(* net/url as the signer uses it *)

IsAlnum(c) == c \in Range(Lower) \cup Range(Upper) \cup Range(Digit)

\* url.shouldEscape in query-component mode: everything but the unreserved
\* characters (letters, digits, - _ . ~) is escaped.
shouldEscape(c) == ~(IsAlnum(c) \/ c \in {"-", "_", ".", "~"})

\* The %XX of a byte.
PercentByte(n) == <<"%", HexUpper[(n \div 16) + 1], HexUpper[(n % 16) + 1]>>

\* url.QueryEscape: a space becomes '+', any other escaped byte %XX.
QueryEscapeChar(c) ==
    IF ~shouldEscape(c) THEN <<c>>
    ELSE IF c = " " THEN <<"+">>
    ELSE PercentByte(Ord[c])
RECURSIVE QueryEscape(_)
QueryEscape(s) ==
    IF s = <<>> THEN <<>> ELSE QueryEscapeChar(Head(s)) \o QueryEscape(Tail(s))

IsHex(c) == c \in Range(HexUpper) \cup Range(HexLower)
UnHex(c) == IF c \in Range(HexUpper) THEN IndexOf(HexUpper, c) - 1
            ELSE IndexOf(HexLower, c) - 1

\* url.QueryUnescape: %XX becomes the byte, '+' a space; a '%' that is not
\* followed by two hexadecimal digits is an error.
RECURSIVE QueryUnescape(_)
QueryUnescape(s) ==
    IF s = <<>> THEN [ok |-> TRUE, val |-> <<>>]
    ELSE IF Head(s) = "%" THEN
        IF Len(s) >= 3 /\ IsHex(s[2]) /\ IsHex(s[3])
        THEN LET r == QueryUnescape(SubSeq(s, 4, Len(s)))
             IN [ok |-> r.ok,
                 val |-> <<Chr(16 * UnHex(s[2]) + UnHex(s[3]))>> \o r.val]
        ELSE [ok |-> FALSE, val |-> <<>>]
    ELSE LET r == QueryUnescape(Tail(s))
         IN [ok |-> r.ok,
             val |-> <<IF Head(s) = "+" THEN " " ELSE Head(s)>> \o r.val]

\* url.ParseQuery: the query is cut at each '&', each piece at its first '=';
\* key and value are unescaped.  A piece that does not unescape is skipped and
\* makes the call return an error.  The result lists the pairs in order.
RECURSIVE ParseQuery(_)
ParseQuery(query) ==
    IF query = <<>> THEN [pairs |-> <<>>, ok |-> TRUE]
    ELSE LET i     == Index(query, "&")
             piece == IF i > 0 THEN SubSeq(query, 1, i - 1) ELSE query
             rest  == ParseQuery(IF i > 0 THEN SubSeq(query, i + 1, Len(query)) ELSE <<>>)
             j     == Index(piece, "=")
             key   == QueryUnescape(IF j > 0 THEN SubSeq(piece, 1, j - 1) ELSE piece)
             value == QueryUnescape(IF j > 0 THEN SubSeq(piece, j + 1, Len(piece)) ELSE <<>>)
         IN IF piece = <<>> THEN rest
            ELSE IF ~key.ok \/ ~value.ok THEN [pairs |-> rest.pairs, ok |-> FALSE]
            ELSE [pairs |-> <<<<key.val, value.val>>>> \o rest.pairs, ok |-> rest.ok]

\* url.Values.Get: the first value of the key, "" when the key is absent.
Get(pairs, key) ==
    IF \E i \in 1..Len(pairs) : pairs[i][1] = key
    THEN pairs[CHOOSE i \in 1..Len(pairs) :
                 pairs[i][1] = key /\ \A j \in 1..(i-1) : pairs[j][1] # key][2]
    ELSE <<>>

\* A header of a Go map: its value, "" when the key is absent.
Header(headers, key) == IF key \in DOMAIN headers THEN headers[key] ELSE <<>>

-----------------------------------------------------------------------------
(* The signers *)

XMsPrefix == <<"x","-","m","s","-">>
Comp == <<"c","o","m","p">>

\* canonicalHeader's first loop: cm after `range headers` visited the keys
\* in the given order.  A later key with the same canonical name overwrites.
RECURSIVE canonicalHeaderMap(_, _)
canonicalHeaderMap(headers, order) ==
    IF order = <<>> THEN <<>>
    ELSE LET k          == order[Len(order)]
             cm         == canonicalHeaderMap(headers, SubSeq(order, 1, Len(order) - 1))
             headerName == TrimSpace(ToLower(k))
         IN IF HasPrefix(headerName, XMsPrefix)
            THEN (headerName :> headers[k]) @@ cm
            ELSE cm

\* canonicalHeader's last loop without the test for the last key: a newline
\* after every line.
RECURSIVE canonicalHeaderLines_newlineAfterEach(_, _)
canonicalHeaderLines_newlineAfterEach(cm, keys) ==
    IF keys = <<>> THEN <<>>
    ELSE keys[1] \o <<":">> \o cm[keys[1]] \o NL
         \o canonicalHeaderLines_newlineAfterEach(cm, Tail(keys))

\* canonicalHeader's last loop: "key:value" per sorted key, a newline after
\* each but the last.
RECURSIVE canonicalHeaderLines(_, _)
canonicalHeaderLines(cm, keys) ==
    IF keys = <<>> THEN <<>>
    ELSE IF Len(keys) = 1 THEN keys[1] \o <<":">> \o cm[keys[1]]
    ELSE keys[1] \o <<":">> \o cm[keys[1]] \o NL \o canonicalHeaderLines(cm, Tail(keys))

canonicalHeader(headers, order) ==
    LET cm == canonicalHeaderMap(headers, order)
    IN IF DOMAIN cm = {} THEN <<>>
       ELSE canonicalHeaderLines(cm, SortStrings(DOMAIN cm))

RECURSIVE encodeComponents(_)
encodeComponents(path) ==
    IF path = <<>> THEN <<>>
    ELSE LET c == Head(path)
         IN (IF IsAlnum(c) \/ c \in {"/", ",", "$", "="}
             THEN <<c>>
             ELSE QueryEscape(<<c>>)) \o encodeComponents(Tail(path))

\* canonicalResource keeping the whole query instead of comp alone.
canonicalResource_keepsQuery(accountName, resourceURL) ==
    LET cr     == <<"/">> \o accountName \o encodeComponents(resourceURL.Path)
        params == ParseQuery(resourceURL.RawQuery)
    IN IF ~params.ok THEN [ok |-> FALSE, val |-> <<>>]
       ELSE IF resourceURL.RawQuery # <<>>
            THEN [ok |-> TRUE, val |-> cr \o <<"?">> \o resourceURL.RawQuery]
            ELSE [ok |-> TRUE, val |-> cr]

\* canonicalResource returns (string, error): here [ok, val].
canonicalResource(accountName, resourceURL) ==
    LET cr     == <<"/">> \o accountName \o encodeComponents(resourceURL.Path)
        params == ParseQuery(resourceURL.RawQuery)
        comp   == Get(params.pairs, Comp)
    IN IF ~params.ok THEN [ok |-> FALSE, val |-> <<>>]
       ELSE IF comp # <<>>
            THEN [ok |-> TRUE, val |-> cr \o <<"?">> \o Comp \o <<"=">> \o QueryEscape(comp)]
            ELSE [ok |-> TRUE, val |-> cr]

ContentMD5 == <<"C","o","n","t","e","n","t","-","M","D","5">>
ContentType == <<"C","o","n","t","e","n","t","-","T","y","p","e">>
Date == <<"D","a","t","e">>
XMsDate == <<"x","-","m","s","-","d","a","t","e">>

\* The blob/queue string with Content-Type written before Content-MD5.
blobQueueSigner_canonicalizedString_swapped(accountName, verb, headers, resourceURL, order) ==
    LET cHeader == canonicalHeader(headers, order)
        cRes    == canonicalResource(accountName, resourceURL)
    IN IF ~cRes.ok THEN [ok |-> FALSE, val |-> <<>>]
       ELSE [ok |-> TRUE,
             val |-> verb \o NL \o Header(headers, ContentType) \o NL
                     \o Header(headers, ContentMD5) \o NL
                     \o Header(headers, Date) \o NL
                     \o cHeader \o NL \o cRes.val]

blobQueueSigner_canonicalizedString(accountName, verb, headers, resourceURL, order) ==
    LET cHeader == canonicalHeader(headers, order)
        cRes    == canonicalResource(accountName, resourceURL)
    IN IF ~cRes.ok THEN [ok |-> FALSE, val |-> <<>>]
       ELSE [ok |-> TRUE,
             val |-> verb \o NL \o Header(headers, ContentMD5) \o NL
                     \o Header(headers, ContentType) \o NL
                     \o Header(headers, Date) \o NL
                     \o cHeader \o NL \o cRes.val]

\* The table string with the verb as a first line.
tableSigner_canonicalizedString_withVerb(accountName, verb, headers, resourceURL, order) ==
    LET cRes == canonicalResource(accountName, resourceURL)
    IN IF ~cRes.ok THEN [ok |-> FALSE, val |-> <<>>]
       ELSE [ok |-> TRUE,
             val |-> verb \o NL \o Header(headers, XMsDate) \o NL \o cRes.val]

tableSigner_canonicalizedString(accountName, verb, headers, resourceURL, order) ==
    LET cRes == canonicalResource(accountName, resourceURL)
    IN IF ~cRes.ok THEN [ok |-> FALSE, val |-> <<>>]
       ELSE [ok |-> TRUE, val |-> Header(headers, XMsDate) \o NL \o cRes.val]

Signers == {"blobQueue", "table"}

\* requestSigner.canonicalizedString, dispatched on the signer's type.
canonicalizedString(signer, accountName, verb, headers, resourceURL, order) ==
    IF signer = "blobQueue"
    THEN blobQueueSigner_canonicalizedString(accountName, verb, headers, resourceURL, order)
    ELSE tableSigner_canonicalizedString(accountName, verb, headers, resourceURL, order)

authScheme(signer) == <<"S","h","a","r","e","d","K","e","y","L","i","t","e">>

\* Client.computeHmac256: base64(HMAC-SHA256(key, message)), kept symbolic: a
\* string that determines, and is determined by, the key and the message.
computeHmac256(accountKey, message) == <<"#">> \o accountKey \o <<"#">> \o message

\* getAuthorizationHeader going on after a failed canonicalization, signing
\* the empty string.
getAuthorizationHeader_signsAnyway(c, signer, verb, url, headers, order) ==
    [ok |-> TRUE,
     val |-> authScheme(signer) \o <<" ">> \o c.accountName \o <<":">>
             \o computeHmac256(c.accountKey,
                               canonicalizedString(signer, c.accountName, verb,
                                                   headers, url, order).val)]

\* Client.getAuthorizationHeader returns (string, error): here [ok, val].
getAuthorizationHeader(c, signer, verb, url, headers, order) ==
    LET cs == canonicalizedString(signer, c.accountName, verb, headers, url, order)
    IN IF ~cs.ok THEN [ok |-> FALSE, val |-> <<>>]
       ELSE [ok |-> TRUE,
             val |-> authScheme(signer) \o <<" ">> \o c.accountName \o <<":">>
                     \o computeHmac256(c.accountKey, cs.val)]

-----------------------------------------------------------------------------
(* The service error decoders *)

\* A response body is one of
\*   [fmt |-> "empty"]                 no bytes
\*   [fmt |-> "garbage"]               bytes that are neither XML nor JSON
\*   [fmt |-> "xml",  elems |-> f]     <Error> with a child element n of text
\*                                     f[n] for every n in DOMAIN f
\*   [fmt |-> "json", doc |-> d]       the JSON object d: a function from its
\*                                     keys to JSON values: [str |-> s] a string,
\*                                     [num |-> s] a number, [obj |-> o] an object
EmptyBody == [fmt |-> "empty"]
GarbageBody == [fmt |-> "garbage"]

\* len(body)
BodyLen(body) == IF body.fmt = "empty" THEN 0 ELSE 1

\* strconv.ParseInt, base 10, of an unsigned text.
IsNumber(text) == text # <<>> /\ \A i \in 1..Len(text) : text[i] \in Range(Digit)
RECURSIVE Atoi(_)
Atoi(text) ==
    IF text = <<>> THEN 0
    ELSE 10 * Atoi(SubSeq(text, 1, Len(text) - 1)) + IndexOf(Digit, text[Len(text)]) - 1

\* The text of a child element, "" when there is none.
Elem(elems, name) == IF name \in DOMAIN elems THEN elems[name] ELSE <<>>

\* The error both decoders return when the body does not unmarshal.
DeserializationError == [type |-> "error", text |-> "storage: error deserializing error"]

\* xml.Unmarshal(body, &e) for e an AzureStorageServiceError.  A child
\* element is stored in the field of its name; StatusCode and RequestID carry
\* no xml tag, so they are such fields too, and a StatusCode text that is no
\* integer makes Unmarshal fail.
xmlUnmarshal(body) ==
    IF body.fmt # "xml" THEN [ok |-> FALSE]
    ELSE IF "StatusCode" \in DOMAIN body.elems /\ ~IsNumber(body.elems["StatusCode"])
    THEN [ok |-> FALSE]
    ELSE [ok |-> TRUE,
          e  |-> [type |-> "AzureStorageServiceError",
                  Code |-> Elem(body.elems, "Code"),
                  Message |-> Elem(body.elems, "Message"),
                  AuthenticationErrorDetail |-> Elem(body.elems, "AuthenticationErrorDetail"),
                  QueryParameterName |-> Elem(body.elems, "QueryParameterName"),
                  QueryParameterValue |-> Elem(body.elems, "QueryParameterValue"),
                  Reason |-> Elem(body.elems, "Reason"),
                  StatusCode |-> IF "StatusCode" \in DOMAIN body.elems
                                 THEN Atoi(body.elems["StatusCode"]) ELSE 0,
                  RequestID |-> Elem(body.elems, "RequestID")]]

serviceErrFromXML(body, statusCode, requestID) ==
    LET u == xmlUnmarshal(body)
    IN IF ~u.ok THEN DeserializationError
       ELSE [u.e EXCEPT !.StatusCode = statusCode, !.RequestID = requestID]

\* The zero AzureStorageTableServiceError.
ZeroTableError ==
    [type |-> "AzureStorageTableServiceError", Code |-> <<>>,
     Message |-> [Lang |-> <<>>, Value |-> <<>>], StatusCode |-> 0, RequestID |-> <<>>]

\* The string under a key of a JSON object, "" when the key is absent.
Member(o, key) == IF key \in DOMAIN o THEN o[key].str ELSE <<>>

\* The key is absent from the object or holds a value of the kind.
KindOrAbsent(o, key, kind) == key \in DOMAIN o => DOMAIN o[key] = {kind}

\* json.Unmarshal(body, &o) for o an odataErr: the object under "odata.error"
\* fills Code and Message; StatusCode and RequestID are tagged json:"-" and
\* are never read from the body.  Other keys are skipped.  A value of
\* another kind than its field makes Unmarshal fail.
jsonUnmarshal(body) ==
    IF body.fmt # "json" THEN [ok |-> FALSE]
    ELSE IF ~ ("odata.error" \in DOMAIN body.doc) THEN [ok |-> TRUE, e |-> ZeroTableError]
    ELSE IF DOMAIN body.doc["odata.error"] # {"obj"} THEN [ok |-> FALSE]
    ELSE LET o == body.doc["odata.error"].obj
             m == IF "message" \in DOMAIN o /\ DOMAIN o["message"] = {"obj"}
                  THEN o["message"].obj ELSE <<>>
         IN IF /\ KindOrAbsent(o, "code", "str")
               /\ KindOrAbsent(o, "message", "obj")
               /\ KindOrAbsent(m, "lang", "str")
               /\ KindOrAbsent(m, "value", "str")
            THEN [ok |-> TRUE,
                  e  |-> [ZeroTableError EXCEPT
                            !.Code = Member(o, "code"),
                            !.Message = [Lang  |-> Member(m, "lang"),
                                         Value |-> Member(m, "value")]]]
            ELSE [ok |-> FALSE]

tableErrFromJSON(body, statusCode, requestID) ==
    LET u == jsonUnmarshal(body)
    IN IF ~u.ok THEN DeserializationError
       ELSE [u.e EXCEPT !.StatusCode = statusCode, !.RequestID = requestID]

ErrFuncs == {"serviceErrFromXML", "tableErrFromJSON"}

\* A serviceErrorFunc, called.
errFuncCall(errFunc, body, statusCode, requestID) ==
    IF errFunc = "serviceErrFromXML"
    THEN serviceErrFromXML(body, statusCode, requestID)
    ELSE tableErrFromJSON(body, statusCode, requestID)

-----------------------------------------------------------------------------
(* The inputs the signing calls are tried on *)

\* The largest number of headers in a header map.
MaxHeaders == 2

\* "x-ms-a", "X-Ms-A" (the same name in another case), " x-ms-b" (with a
\* leading space), "x-ms-date", "Date", "Content-MD5", "Content-Type", "foo:"
HeaderNames ==
    { <<"x","-","m","s","-","a">>, <<"X","-","M","s","-","A">>,
      <<" ","x","-","m","s","-","b">>, XMsDate, Date, ContentMD5, ContentType,
      <<"f","o","o",":">> }

\* "1" and "2 " (a value that ends with a space)
HeaderValues == { <<"1">>, <<"2"," ">> }

HeaderMapsOver(names) ==
    UNION { [D -> HeaderValues] :
            D \in { E \in SUBSET names : Cardinality(E) <= MaxHeaders } }

HeaderMaps == HeaderMapsOver(HeaderNames)

\* The header maps the signers are tried on.
SignHeaderMaps ==
    HeaderMapsOver({ <<"x","-","m","s","-","a">>, <<"X","-","M","s","-","A">>,
                     XMsDate, Date, ContentType })

\* The orders in which `range` may visit a map: the enumerations of its keys.
Orders(headers) ==
    LET D == DOMAIN headers
        n == Cardinality(D)
    IN { o \in [1..n -> D] : \A i, j \in 1..n : i # j => o[i] # o[j] }

\* "GET", "PUT"
Verbs == { <<"G","E","T">>, <<"P","U","T">> }

\* "/path", "/", "/cnt/blob", "/Table('bar')", "/a b", "/a-b_c.d~e",
\* "/k=v,w$x", "/a?b&c", "/a:b;c@d+e*"
Paths ==
    { <<"/","p","a","t","h">>, <<"/">>, <<"/","c","n","t","/","b","l","o","b">>,
      <<"/","T","a","b","l","e","(","'","b","a","r","'",")">>,
      <<"/","a"," ","b">>, <<"/","a","-","b","_","c",".","d","~","e">>,
      <<"/","k","=","v",",","w","$","x">>, <<"/","a","?","b","&","c">>,
      <<"/","a",":","b",";","c","@","d","+","e","*">> }

\* "", "comp=ok", "a=b&c=d&comp=ok", "comp=", "comp", "comp=a%2fb",
\* "comp=a+b", "comp=%zz", "comp=x&comp=y", "a=b", "a=%z&comp=ok",
\* "comp=list&a=b", "&&comp=ok", "comp=&comp=y", "c%6Fmp=ok"
Queries ==
    { <<>>, <<"c","o","m","p","=","o","k">>,
      <<"a","=","b","&","c","=","d","&","c","o","m","p","=","o","k">>,
      <<"c","o","m","p","=">>, <<"c","o","m","p">>,
      <<"c","o","m","p","=","a","%","2","f","b">>,
      <<"c","o","m","p","=","a","+","b">>,
      <<"c","o","m","p","=","%","z","z">>,
      <<"c","o","m","p","=","x","&","c","o","m","p","=","y">>,
      <<"a","=","b">>,
      <<"a","=","%","z","&","c","o","m","p","=","o","k">>,
      <<"c","o","m","p","=","l","i","s","t","&","a","=","b">>,
      <<"&","&","c","o","m","p","=","o","k">>,
      <<"c","o","m","p","=","&","c","o","m","p","=","y">>,
      <<"c","%","6","F","m","p","=","o","k">> }

URLs == [Path : Paths, RawQuery : Queries]

\* The URLs the signers are tried on: "/path", "/Table('bar')?comp=ok",
\* "/path?comp=%zz".
SignURLs ==
    { [Path |-> <<"/","p","a","t","h">>, RawQuery |-> <<>>],
      [Path |-> <<"/","T","a","b","l","e","(","'","b","a","r","'",")">>,
       RawQuery |-> <<"c","o","m","p","=","o","k">>],
      [Path |-> <<"/","p","a","t","h">>,
       RawQuery |-> <<"c","o","m","p","=","%","z","z">>] }

\* Clients as NewClient builds them: account "foo", with key "k" or "q".
Clients ==
    { [accountName |-> <<"f","o","o">>, accountKey |-> <<"k">>],
      [accountName |-> <<"f","o","o">>, accountKey |-> <<"q">>] }

AccountNames == { c.accountName : c \in Clients }

-----------------------------------------------------------------------------
(* The signing calls *)

CanonicalHeader ==
    /\ sign = Idle
    /\ \E headers \in HeaderMaps : \E order \in Orders(headers) :
         sign' = [op |-> "canonicalHeader", headers |-> headers, order |-> order,
                  out |-> canonicalHeader(headers, order)]
    /\ UNCHANGED <<call, dec, ent>>

CanonicalResource ==
    /\ sign = Idle
    /\ \E accountName \in AccountNames, url \in URLs :
         sign' = [op |-> "canonicalResource", accountName |-> accountName,
                  url |-> url, out |-> canonicalResource(accountName, url)]
    /\ UNCHANGED <<call, dec, ent>>

CanonicalizedString ==
    /\ sign = Idle
    /\ \E signer \in Signers, accountName \in AccountNames, verb \in Verbs,
          headers \in SignHeaderMaps, url \in SignURLs :
         \E order \in Orders(headers) :
           sign' = [op |-> "canonicalizedString", signer |-> signer,
                    accountName |-> accountName, verb |-> verb,
                    headers |-> headers, url |-> url, order |-> order,
                    out |-> canonicalizedString(signer, accountName, verb,
                                                headers, url, order)]
    /\ UNCHANGED <<call, dec, ent>>

GetAuthorizationHeader ==
    /\ sign = Idle
    /\ \E c \in Clients, signer \in Signers, verb \in Verbs,
          headers \in SignHeaderMaps, url \in SignURLs :
         \E order \in Orders(headers) :
           sign' = [op |-> "getAuthorizationHeader", c |-> c, signer |-> signer,
                    verb |-> verb, headers |-> headers, url |-> url,
                    n |-> 1,
                    out |-> getAuthorizationHeader(c, signer, verb, url, headers, order),
                    prev |-> getAuthorizationHeader(c, signer, verb, url, headers, order)]
    /\ UNCHANGED <<call, dec, ent>>

\* The same call once more: the inputs are those of the first call, the order
\* in which the header map is visited is again any.
GetAuthorizationHeaderAgain ==
    /\ sign.op = "getAuthorizationHeader"
    /\ sign.n = 1
    /\ \E order \in Orders(sign.headers) :
         sign' = [sign EXCEPT
                    !.n = 2,
                    !.prev = sign.out,
                    !.out = getAuthorizationHeader(sign.c, sign.signer, sign.verb,
                                                   sign.url, sign.headers, order)]
    /\ UNCHANGED <<call, dec, ent>>

SignReturn ==
    /\ sign # Idle
    /\ sign' = Idle
    /\ UNCHANGED <<call, dec, ent>>

NextSign ==
    \/ CanonicalHeader
    \/ CanonicalResource
    \/ CanonicalizedString
    \/ GetAuthorizationHeader
    \/ GetAuthorizationHeaderAgain
    \/ SignReturn

SpecSign == Init /\ [][NextSign]_vars

-----------------------------------------------------------------------------
(* The decoder calls *)

\* The largest number of child elements (XML) or members (JSON) of an error
\* body.
MaxElems == 3

\* The functions from at most MaxElems of the names to the values each name
\* may have.
ObjectsOver(names, valuesOf(_)) ==
    UNION { { f \in [D -> UNION { valuesOf(n) : n \in D }] : \A n \in D : f[n] \in valuesOf(n) } :
            D \in { E \in SUBSET names : Cardinality(E) <= MaxElems } }

\* The texts of the child elements: Code "c1" or "c2", Message "m1",
\* StatusCode "500" or "abc", RequestID "evil", Foo "x".
XMLTexts(name) ==
    CASE name = "Code" -> { <<"c","1">>, <<"c","2">> }
      [] name = "Message" -> { <<"m","1">> }
      [] name = "StatusCode" -> { <<"5","0","0">>, <<"a","b","c">> }
      [] name = "RequestID" -> { <<"e","v","i","l">> }
      [] name = "Foo" -> { <<"x">> }

XMLBodies ==
    { [fmt |-> "xml", elems |-> f] :
      f \in ObjectsOver({"Code", "Message", "StatusCode", "RequestID", "Foo"}, XMLTexts) }

\* The members of the object under "odata.error": code "c1" or "c2", message
\* {lang "en-US", value "v1"} or {lang "en-US"}, StatusCode 999, RequestID
\* "evil".
JSONString(s) == [str |-> s]
JSONObject(o) == [obj |-> o]

JSONMembers(key) ==
    CASE key = "code" -> { JSONString(<<"c","1">>), JSONString(<<"c","2">>) }
      [] key = "message" ->
           { JSONObject(("lang" :> JSONString(<<"e","n","-","U","S">>))
                        @@ ("value" :> JSONString(<<"v","1">>))),
             JSONObject(("lang" :> JSONString(<<"e","n","-","U","S">>))) }
      [] key = "StatusCode" -> { [num |-> <<"9","9","9">>] }
      [] key = "RequestID" -> { JSONString(<<"e","v","i","l">>) }

JSONBodies ==
    { [fmt |-> "json", doc |-> ("odata.error" :> JSONObject(o))] :
      o \in ObjectsOver({"code", "message", "StatusCode", "RequestID"}, JSONMembers) }
    \cup { [fmt |-> "json", doc |-> ("other" :> JSONString(<<"x">>))] }

Bodies == {EmptyBody, GarbageBody} \cup XMLBodies \cup JSONBodies

StatusCodes == {400, 404, 500}

\* "foo" and ""
RequestIDs == { <<"f","o","o">>, <<>> }

ServiceErrFromXML ==
    /\ dec = Idle
    /\ \E body \in Bodies, statusCode \in StatusCodes, requestID \in RequestIDs :
         dec' = [op |-> "serviceErrFromXML", body |-> body, statusCode |-> statusCode,
                 requestID |-> requestID,
                 out |-> serviceErrFromXML(body, statusCode, requestID)]
    /\ UNCHANGED <<sign, call, ent>>

TableErrFromJSON ==
    /\ dec = Idle
    /\ \E body \in Bodies, statusCode \in StatusCodes, requestID \in RequestIDs :
         dec' = [op |-> "tableErrFromJSON", body |-> body, statusCode |-> statusCode,
                 requestID |-> requestID,
                 out |-> tableErrFromJSON(body, statusCode, requestID)]
    /\ UNCHANGED <<sign, call, ent>>

DecReturn ==
    /\ dec # Idle
    /\ dec' = Idle
    /\ UNCHANGED <<sign, call, ent>>

NextErr ==
    \/ ServiceErrFromXML
    \/ TableErrFromJSON
    \/ DecReturn

SpecErr == Init /\ [][NextErr]_vars

-----------------------------------------------------------------------------
(* Table entities and their JSON form *)

\* A value an entity holds is one of
\*   [str |-> s]       a string
\*   [num |-> digits]  an integer of at most 15 digits
\*   [bool |-> b]      a boolean
\*   [arr |-> <<>>]    an empty slice, written as the JSON array []
\*   [chan |-> TRUE]   a value encoding/json has no encoding for
\* A TableEntity is one of
\*   [variant |-> "nil"]                           the nil interface
\*   [variant |-> "Map", m |-> map]                a MapTableEntity
\*   [variant |-> "Struct", Val |-> v]             a StructTableEntity, v one of
\*        [kind |-> "nil"], [kind |-> "int"], [kind |-> "ptr"],
\*        [kind |-> "struct", fields |-> <<field, ...>>], a field being
\*        [Name, json, odata, val]: the declared name, the json tag, the
\*        odata.type tag ("" when there is none) and the value
\*   [variant |-> "Marshaled", Val |-> v]          a MarshaledTableEntity, v
\*        [kind |-> "nil"] or [kind |-> "marshaler", bytes, fails]
NilEntity == [variant |-> "nil"]

NoErr == [type |-> "nil"]

\* jsonMarshal returns ([]byte, error), or panics: [outcome, bytes, err].
\* The bytes of a JSON object are its members in the order they are written.
Marshalled(bytes) == [outcome |-> "ok", bytes |-> bytes, err |-> NoErr]
MarshalFailed(err) == [outcome |-> "error", bytes |-> <<>>, err |-> err]
MarshalPanicked == [outcome |-> "panic", bytes |-> <<>>, err |-> NoErr]

UnsupportedTypeError == [type |-> "error", text |-> "json: unsupported type"]

\* json.MarshalIndent writing the keys from the last to the first.
MarshalIndent_descending(m) ==
    IF \E k \in DOMAIN m : DOMAIN m[k] = {"chan"} THEN MarshalFailed(UnsupportedTypeError)
    ELSE LET keys == SortStrings_descending(DOMAIN m)
         IN Marshalled([i \in 1..Len(keys) |-> <<keys[i], m[keys[i]]>>])

\* json.MarshalIndent of a map[string]interface{}: the keys sorted, an error
\* for a value without a JSON encoding.
MarshalIndent(m) ==
    IF \E k \in DOMAIN m : DOMAIN m[k] = {"chan"} THEN MarshalFailed(UnsupportedTypeError)
    ELSE LET keys == SortStrings(DOMAIN m)
         IN Marshalled([i \in 1..Len(keys) |-> <<keys[i], m[keys[i]]>>])

MapTableEntity_jsonMarshal(m) == MarshalIndent(m)

\* The json tag up to its first comma, and the options after it.
TagName(tag) == SplitOn(tag, ",")[1]
TagHasOption(tag, opt) ==
    \E i \in 2..Len(SplitOn(tag, ",")) : SplitOn(tag, ",")[i] = opt

\* The name of a field taken from its declaration alone.
jsonName_declared(f) == f.Name

\* StructTableEntity.jsonName
jsonName(f) == IF f.json # <<>> THEN TagName(f.json) ELSE f.Name

\* encoding/json on a struct: the fields it writes are the exported ones not
\* tagged "-", under the name of the tag or else the declared name; of
\* several fields with one name the only tagged one is written, or none; a
\* field tagged omitempty is left out when its value is empty.
IsExported(f) == f.Name # <<>> /\ Head(f.Name) \in Range(Upper)
\* isValidTag of encoding/json: a name of letters, digits and the
\* punctuation it lists; any other name in a tag is ignored.
isValidTag(name) ==
    /\ name # <<>>
    /\ \A i \in 1..Len(name) : name[i] \notin {"'", "\n", ","}
IsTagged(f) == isValidTag(TagName(f.json))
EncodedName(f) == IF IsTagged(f) THEN TagName(f.json) ELSE f.Name
isEmptyValue(v) ==
    v \in { [str |-> <<>>], [num |-> <<"0">>], [bool |-> FALSE], [arr |-> <<>>] }

Candidates(fields) ==
    { i \in 1..Len(fields) : IsExported(fields[i]) /\ fields[i].json # <<"-">> }

Dominant(fields) ==
    { i \in Candidates(fields) :
        LET same   == { j \in Candidates(fields) :
                          EncodedName(fields[j]) = EncodedName(fields[i]) }
            tagged == { j \in same : IsTagged(fields[j]) }
        IN same = {i} \/ tagged = {i} }

Encoded(fields) ==
    { i \in Dominant(fields) :
        ~ (TagHasOption(fields[i].json, <<"o","m","i","t","e","m","p","t","y">>) /\ isEmptyValue(fields[i].val)) }

\* Steps 1 and 2 of StructTableEntity.jsonMarshal: json.Marshal of the struct
\* read back with json.Unmarshal as a map, [ok, m].
MarshalToMap(fields) ==
    IF \E i \in Dominant(fields) : DOMAIN fields[i].val = {"chan"}
    THEN [ok |-> FALSE, m |-> <<>>]
    ELSE [ok |-> TRUE,
          m  |-> [k \in { EncodedName(fields[i]) : i \in Encoded(fields) } |->
                    fields[CHOOSE i \in Encoded(fields) : EncodedName(fields[i]) = k].val]]

ODataTypeSuffix == <<"@","o","d","a","t","a",".","t","y","p","e">>

\* Step 3: extras after the fields up to the n-th were scanned; a later field
\* with the same key overwrites.
RECURSIVE Extras(_, _)
Extras(fields, n) ==
    IF n = 0 THEN <<>>
    ELSE LET f == fields[n]
         IN IF f.odata # <<>>
            THEN ((jsonName(f) \o ODataTypeSuffix) :> [str |-> f.odata]) @@ Extras(fields, n - 1)
            ELSE Extras(fields, n - 1)

NilStructError ==
    [type |-> "error", text |-> "storage: struct value for given StructTableEntity is nil"]
NotAStructError ==
    [type |-> "error", text |-> "storage: value given to StructTableEntity is not a struct"]

\* Steps 1 to 5 of StructTableEntity.jsonMarshal, on the fields of a struct.
StructSteps(fields) ==
    LET b == MarshalToMap(fields)
    IN IF ~b.ok THEN MarshalFailed(UnsupportedTypeError)
       ELSE MarshalIndent(Extras(fields, Len(fields)) @@ b.m)

\* StructTableEntity.jsonMarshal without the test of the kind: json.Marshal
\* has no encoding for a channel, a number is not read back as a map, and
\* t.NumField() panics on the type of a pointer.
StructTableEntity_jsonMarshal_kindUnchecked(Val) ==
    IF Val.kind = "nil" THEN MarshalFailed(NilStructError)
    ELSE IF Val.kind = "chan" THEN MarshalFailed(UnsupportedTypeError)
    ELSE IF Val.kind = "int" THEN MarshalFailed([type |-> "error", text |-> "json: cannot unmarshal"])
    ELSE IF Val.kind = "ptr" THEN MarshalPanicked
    ELSE StructSteps(Val.fields)

StructTableEntity_jsonMarshal(Val) ==
    IF Val.kind = "nil" THEN MarshalFailed(NilStructError)
    ELSE IF Val.kind # "struct" THEN MarshalFailed(NotAStructError)
    ELSE StructSteps(Val.fields)

\* c.Val.MarshalJSON(): whatever the marshaler returns; a nil Val is a nil
\* interface, and the call on it panics.
MarshaledTableEntity_jsonMarshal(Val) ==
    IF Val.kind = "nil" THEN MarshalPanicked
    ELSE IF Val.fails THEN MarshalFailed([type |-> "error", text |-> "MarshalJSON"])
    ELSE Marshalled(Val.bytes)

\* entity.jsonMarshal()
jsonMarshal(entity) ==
    CASE entity.variant = "Map" -> MapTableEntity_jsonMarshal(entity.m)
      [] entity.variant = "Struct" -> StructTableEntity_jsonMarshal(entity.Val)
      [] entity.variant = "Marshaled" -> MarshaledTableEntity_jsonMarshal(entity.Val)

-----------------------------------------------------------------------------
(* The entities jsonMarshal is tried on *)

PartitionKeyName == <<"P","a","r","t","i","t","i","o","n","K","e","y">>
RowKeyName == <<"R","o","w","K","e","y">>

Field(Name, json, odata, val) == [Name |-> Name, json |-> json, odata |-> odata, val |-> val]

\* The most fields a struct has.
MaxFields == 3

\* The fields the structs are made of:
\*   PartitionKey string
\*   RowKey       string
\*   Id   string   `json:"id" odata.type:"Edm.Guid"`
\*   Age  int      `json:",omitempty" odata.type:"Edm.Int64"`    (0)
\*   N    int      `json:"n,omitempty" odata.type:"Edm.Int64"`   (0)
\*   Key  string   `json:"-" odata.type:"Edm.Guid"`
\*   age  int      `odata.type:"Edm.Int64"`                      (unexported)
\*   Ref  string   `json:"id" odata.type:"Edm.Int64"`
\*   Q    string   `json:"a'b" odata.type:"Edm.Guid"`            (not a valid name)
\*   Tags []string                                               (empty)
\*   Ch   chan int
FieldPool ==
    { Field(PartitionKeyName, <<>>, <<>>, [str |-> <<"p","k">>]),
      Field(RowKeyName, <<>>, <<>>, [str |-> <<"r","k">>]),
      Field(<<"I","d">>, <<"i","d">>, <<"E","d","m",".","G","u","i","d">>, [str |-> <<"g","1">>]),
      Field(<<"A","g","e">>, <<",","o","m","i","t","e","m","p","t","y">>, <<"E","d","m",".","I","n","t","6","4">>, [num |-> <<"0">>]),
      Field(<<"N">>, <<"n">> \o <<",","o","m","i","t","e","m","p","t","y">>, <<"E","d","m",".","I","n","t","6","4">>, [num |-> <<"0">>]),
      Field(<<"K","e","y">>, <<"-">>, <<"E","d","m",".","G","u","i","d">>, [str |-> <<"k","1">>]),
      Field(<<"a","g","e">>, <<>>, <<"E","d","m",".","I","n","t","6","4">>, [num |-> <<"5">>]),
      Field(<<"R","e","f">>, <<"i","d">>, <<"E","d","m",".","I","n","t","6","4">>, [str |-> <<"7">>]),
      Field(<<"Q">>, <<"a","'","b">>, <<"E","d","m",".","G","u","i","d">>, [str |-> <<"q","1">>]),
      Field(<<"T","a","g","s">>, <<>>, <<>>, [arr |-> <<>>]),
      Field(<<"C","h">>, <<>>, <<>>, [chan |-> TRUE]) }

\* The struct values: up to MaxFields fields, no field declared twice.
Structs ==
    { fields \in UNION { [1..n -> FieldPool] : n \in 0..MaxFields } :
        \A i, j \in 1..Len(fields) : i # j => fields[i].Name # fields[j].Name }

\* What a StructTableEntity wraps: nil, a struct, or a value of another kind.
StructVals ==
    { [kind |-> k] : k \in {"nil", "int", "ptr", "chan"} }
    \cup { [kind |-> "struct", fields |-> fields] : fields \in Structs }

\* The maps of a MapTableEntity (not nil): some of four keys, each with a
\* string, a slice or a value without an encoding.
MapKeys == { PartitionKeyName, RowKeyName, <<"A","g","e">>, <<"A","g","e">> \o ODataTypeSuffix }
MapValues == { [str |-> <<"v">>], [arr |-> <<>>], [chan |-> TRUE] }
Maps == UNION { [keys -> MapValues] : keys \in SUBSET MapKeys }

\* What a MarshaledTableEntity wraps: nil, a marshaler that fails, and
\* marshalers that return an object with both keys, the empty object and an
\* object holding an array.
MarshalerVals ==
    { [kind |-> "nil"],
      [kind |-> "marshaler", fails |-> TRUE, bytes |-> <<>>],
      [kind |-> "marshaler", fails |-> FALSE,
       bytes |-> << <<PartitionKeyName, [str |-> <<"p","k">>]>>,
                    <<RowKeyName, [str |-> <<"r","k">>]>> >>],
      [kind |-> "marshaler", fails |-> FALSE, bytes |-> <<>>],
      [kind |-> "marshaler", fails |-> FALSE,
       bytes |-> << <<PartitionKeyName, [str |-> <<"p","k">>]>>,
                    <<RowKeyName, [str |-> <<"r","k">>]>>,
                    <<<<"T","a","g","s">>, [arr |-> <<>>]>> >>] }

-----------------------------------------------------------------------------
(* The jsonMarshal calls *)

MapJsonMarshal ==
    /\ ent = Idle
    /\ \E m \in Maps :
         ent' = [op |-> "MapTableEntity.jsonMarshal",
                 entity |-> [variant |-> "Map", m |-> m],
                 out |-> jsonMarshal([variant |-> "Map", m |-> m])]
    /\ UNCHANGED <<sign, call, dec>>

StructJsonMarshal ==
    /\ ent = Idle
    /\ \E Val \in StructVals :
         ent' = [op |-> "StructTableEntity.jsonMarshal",
                 entity |-> [variant |-> "Struct", Val |-> Val],
                 out |-> jsonMarshal([variant |-> "Struct", Val |-> Val])]
    /\ UNCHANGED <<sign, call, dec>>

MarshaledJsonMarshal ==
    /\ ent = Idle
    /\ \E Val \in MarshalerVals :
         ent' = [op |-> "MarshaledTableEntity.jsonMarshal",
                 entity |-> [variant |-> "Marshaled", Val |-> Val],
                 out |-> jsonMarshal([variant |-> "Marshaled", Val |-> Val])]
    /\ UNCHANGED <<sign, call, dec>>

EntReturn ==
    /\ ent # Idle
    /\ ent' = Idle
    /\ UNCHANGED <<sign, call, dec>>

NextEntity ==
    \/ MapJsonMarshal
    \/ StructJsonMarshal
    \/ MarshaledJsonMarshal
    \/ EntReturn

SpecEntity == Init /\ [][NextEntity]_vars

-----------------------------------------------------------------------------
(* Client.exec *)

\* What the transport (http.DefaultClient.Do) does with a request: it fails,
\* or it returns a response with a status code, a body, the x-ms-request-id
\* header, and a body reader that may fail when read.
\*   [fails |-> TRUE]
\*   [fails |-> FALSE, statusCode, body, requestID, readFails]

\* ioutil.ReadAll failing on the response body.
ReadError == [type |-> "error", text |-> "read"]
\* What httpClient.Do returns when it fails.
TransportError == [type |-> "error", text |-> "transport"]
SigningError == [type |-> "error", text |-> "storage: error parsing the request for signing"]
NoBodyError == [type |-> "error", text |-> "storage: service returned without a response body"]

\* readResponseBody returns ([]byte, error), and its deferred Close leaves
\* the body closed: [out, err, body].  After a failure exec drops the bytes
\* read so far; they are left empty.
readResponseBody(resp) ==
    IF resp.readFails THEN [out |-> EmptyBody, err |-> ReadError, body |-> "closed"]
    ELSE [out |-> resp.body, err |-> NoErr, body |-> "closed"]

\* The test of the status code with its upper limit left out.
inErrorRange_below505(statusCode) == statusCode >= 400 /\ statusCode < 505

inErrorRange(statusCode) == statusCode >= 400 /\ statusCode <= 505

NoResponse == [statusCode |-> 0, requestID |-> <<>>, body |-> "none"]

\* What came of a call of an operation:
\*   resp            the storageResponse exec returned (NoResponse for nil);
\*                   its body is "net", the reader of the transport, or
\*                   "restored", a reader over the bytes read
\*   err             the error returned (NoErr for nil)
\*   auth            what getAuthorizationHeader returned
\*   headers         the header map as exec left it (empty without exec)
\*   transportCalls  the number of calls of httpClient.Do
\*   decoderCalls    the number of calls of errFunc
\*   netBody         the state of the body of the transport's response:
\*                   "none", "open" or "closed"
\*   netRead         whether that body was read
\*   execCalled      whether Client.exec was called
\*   panicked        whether the operation panicked instead of returning
\* NotSent is an operation that has not called exec.
NotSent ==
    [resp |-> NoResponse, err |-> NoErr, auth |-> [ok |-> FALSE, val |-> <<>>],
     headers |-> <<>>,
     transportCalls |-> 0, decoderCalls |-> 0, netBody |-> "none", netRead |-> FALSE,
     execCalled |-> FALSE, panicked |-> FALSE]
Returned(err) == [NotSent EXCEPT !.err = err]
Panicked == [NotSent EXCEPT !.panicked = TRUE]

Authorization == <<"A","u","t","h","o","r","i","z","a","t","i","o","n">>

\* A request that is sent again after the first attempt.
Requested_resent(authHeader, headers) ==
    [NotSent EXCEPT !.execCalled = TRUE, !.auth = authHeader,
                    !.headers = (Authorization :> authHeader.val) @@ headers,
                    !.transportCalls = 2]

\* exec after `headers["Authorization"] = authHeader`, the request sent.
Requested(authHeader, headers) ==
    [NotSent EXCEPT !.execCalled = TRUE, !.auth = authHeader,
                    !.headers = (Authorization :> authHeader.val) @@ headers,
                    !.transportCalls = 1]

\* Client.exec once the response is there, its status code in the error
\* range: read is what readResponseBody returned.
execErrorStatus(authHeader, headers, errFunc, net, read) ==
    IF read.err.type # "nil"
    THEN [Requested(authHeader, headers) EXCEPT
            !.err = read.err, !.netBody = read.body, !.netRead = TRUE]
    ELSE [Requested(authHeader, headers) EXCEPT
            !.resp = [statusCode |-> net.statusCode,
                      requestID |-> net.requestID, body |-> "restored"],
            !.err = IF BodyLen(read.out) = 0 THEN NoBodyError
                    ELSE errFuncCall(errFunc, read.out, net.statusCode, net.requestID),
            !.decoderCalls = IF BodyLen(read.out) = 0 THEN 0 ELSE 1,
            !.netBody = read.body, !.netRead = TRUE]

\* Client.exec from the test of the error of getAuthorizationHeader on:
\* authHeader is what getAuthorizationHeader returned, net what the
\* transport does with the request.
execSigned(authHeader, headers, errFunc, net) ==
    IF ~authHeader.ok
    THEN [NotSent EXCEPT !.execCalled = TRUE, !.auth = authHeader,
                         !.headers = headers, !.err = SigningError]
    ELSE IF net.fails
    THEN [Requested(authHeader, headers) EXCEPT !.err = TransportError]
    ELSE IF inErrorRange(net.statusCode)
    THEN execErrorStatus(authHeader, headers, errFunc, net, readResponseBody(net))
    ELSE [Requested(authHeader, headers) EXCEPT
            !.resp = [statusCode |-> net.statusCode,
                      requestID |-> net.requestID, body |-> "net"],
            !.netBody = "open"]

\* Client.exec returns (*storageResponse, error): the resp and err of the
\* result.  The verbs and URLs of the calls made here are ones
\* http.NewRequest accepts.
exec(c, verb, url, headers, signer, errFunc, order, net) ==
    execSigned(getAuthorizationHeader(c, signer, verb, url, headers, order),
               headers, errFunc, net)

-----------------------------------------------------------------------------
(* The table service client *)

\* TableServiceClient.exec
TableServiceClient_exec(c, verb, url, headers, order, net) ==
    exec(c, verb, url, headers, "table", "tableErrFromJSON", order, net)

\* Client.getEndpoint with no query parameters: the path with a leading
\* slash, an empty RawQuery.  The scheme and the host play no part in the
\* signature.
getEndpoint(c, path) ==
    [Path |-> IF HasPrefix(path, <<"/">>) THEN path ELSE <<"/">> \o path,
     RawQuery |-> <<>>]

XMsVersion == <<"x","-","m","s","-","v","e","r","s","i","o","n">>
acceptKey == <<"A","c","c","e","p","t">>
noMetadataHeader == <<"a","p","p","l","i","c","a","t","i","o","n","/","j","s","o","n",";","o","d","a","t","a","=","n","o","m","e","t","a","d","a","t","a">>
jsonContentType == <<"a","p","p","l","i","c","a","t","i","o","n","/","j","s","o","n">>

\* Client.getStandardHeaders, d the current time as formatted.
getStandardHeaders(c, d) == (XMsVersion :> c.apiVersion) @@ (XMsDate :> d)

\* TableServiceClient.baseHeaders
baseHeaders(c, d) == (acceptKey :> noMetadataHeader) @@ getStandardHeaders(c, d)

azureParameterError(name) == [type |-> "azureParameterError", name |-> name]

checkRespCode(respCode, allowed) ==
    IF respCode \in allowed THEN NoErr
    ELSE [type |-> "UnexpectedStatusCodeError", allowed |-> allowed, got |-> respCode]

\* An operation that returns without closing the body of the response.
CloseBody_forgotten(r) == r

\* `defer resp.body.Close()`, run when the operation returns: it closes the
\* transport's body when that is the body of the storageResponse.
CloseBody(r) ==
    [r EXCEPT !.netBody = IF r.resp.body = "net" THEN "closed" ELSE @]

\* The end of an operation, r being what exec returned: the error of exec is
\* returned; without one the body is closed on return.
ReturnNil(r) == IF r.err.type # "nil" THEN r ELSE CloseBody(r)
ReturnChecked(r, allowed) ==
    IF r.err.type # "nil" THEN r
    ELSE [CloseBody(r) EXCEPT !.err = checkRespCode(r.resp.statusCode, allowed)]

\* jsonUnmarshal(resp.body, &out) of QueryTables: the body is read to its end
\* and decoded as a JSON document.
jsonUnmarshal_body(net) ==
    IF net.readFails THEN ReadError
    ELSE IF net.body.fmt # "json" THEN [type |-> "error", text |-> "json"]
    ELSE NoErr

\* The end of QueryTables: the body is decoded, and closed on return.
ReturnDecoded(r, net) ==
    IF r.err.type # "nil" THEN r
    ELSE [CloseBody(r) EXCEPT !.err = jsonUnmarshal_body(net), !.netRead = TRUE]

\* jsonMarshal(params) of CreateTable: the JSON object of a
\* CreateTableParameters, which has a string field only.
jsonMarshal_params(params) ==
    Marshalled(<< << <<"T","a","b","l","e","N","a","m","e">>, [str |-> params.TableName] >> >>)

TablesPath == <<"T","a","b","l","e","s">>

queryTables(c, d, order, net) ==
    ReturnDecoded(
        TableServiceClient_exec(c, <<"G","E","T">>, getEndpoint(c, <<"/">> \o TablesPath),
                                baseHeaders(c, d), order, net),
        net)

\* CreateTable from the test of the error of jsonMarshal on.
createMarshalled(c, body, d, order, net) ==
    IF body.outcome = "error" THEN Returned(body.err)
    ELSE ReturnChecked(
             TableServiceClient_exec(c, <<"P","O","S","T">>, getEndpoint(c, TablesPath),
                                     (ContentType :> jsonContentType) @@ baseHeaders(c, d),
                                     order, net),
             {201, 204})

createTable(c, params, d, order, net) ==
    createMarshalled(c, jsonMarshal_params(params), d, order, net)

\* The path of a table: fmt.Sprintf("Tables('%s')", tableName)
TablePath(tableName) == TablesPath \o <<"(","'">> \o tableName \o <<"'",")">>

deleteTable(c, tableName, d, order, net) ==
    ReturnChecked(
        TableServiceClient_exec(c, <<"D","E","L","E","T","E">>,
                                getEndpoint(c, TablePath(tableName)),
                                baseHeaders(c, d), order, net),
        {204})

\* The path of an entity: fmt.Sprintf("%s(PartitionKey='%s',RowKey='%s')", ...)
EntityPath(tableName, partitionKey, rowKey) ==
    tableName \o <<"(","P","a","r","t","i","t","i","o","n","K","e","y","=","'">> \o partitionKey
              \o <<"'",",","R","o","w","K","e","y","=","'">> \o rowKey \o <<"'",")">>

\* InsertEntity from the test of the error of jsonMarshal on: body is what
\* entity.jsonMarshal() returned.
insertMarshalled(c, tableName, body, d, order, net) ==
    IF body.outcome = "panic" THEN Panicked
    ELSE IF body.outcome = "error" THEN Returned(body.err)
    ELSE ReturnChecked(
             TableServiceClient_exec(c, <<"P","O","S","T">>, getEndpoint(c, tableName),
                                     (ContentType :> jsonContentType) @@ baseHeaders(c, d),
                                     order, net),
             {201, 204})

insertEntity(c, tableName, entity, d, order, net) ==
    IF tableName = <<>> THEN Returned(azureParameterError("tableName"))
    ELSE IF entity = NilEntity THEN Returned(azureParameterError("entity"))
    ELSE insertMarshalled(c, tableName, jsonMarshal(entity), d, order, net)

queryEntity(c, tableName, partitionKey, rowKey, d, order, net) ==
    IF tableName = <<>> THEN Returned(azureParameterError("tableName"))
    ELSE IF partitionKey = <<>> THEN Returned(azureParameterError("partitionKey"))
    ELSE IF rowKey = <<>> THEN Returned(azureParameterError("rowKey"))
    ELSE ReturnNil(
             TableServiceClient_exec(
                 c, <<"G","E","T">>,
                 getEndpoint(c, EntityPath(tableName, partitionKey, rowKey)),
                 (acceptKey :> noMetadataHeader)
                     @@ (ContentType :> jsonContentType) @@ baseHeaders(c, d),
                 order, net))

deleteEntity(c, tableName, partitionKey, rowKey, d, order, net) ==
    IF tableName = <<>> THEN Returned(azureParameterError("tableName"))
    ELSE IF partitionKey = <<>> THEN Returned(azureParameterError("partitionKey"))
    ELSE IF rowKey = <<>> THEN Returned(azureParameterError("rowKey"))
    ELSE ReturnChecked(
             TableServiceClient_exec(
                 c, <<"D","E","L","E","T","E">>,
                 getEndpoint(c, EntityPath(tableName, partitionKey, rowKey)),
                 baseHeaders(c, d), order, net),
             {204})

-----------------------------------------------------------------------------
(* The inputs the client calls are tried on *)

\* The client of the tests: account "foo", API version "2014-02-14".
TableClients ==
    { [accountName |-> <<"f","o","o">>, accountKey |-> <<"k">>,
       apiVersion |-> <<"2","0","1","4","-","0","2","-","1","4">>] }

\* What currentTimeRfc1123Formatted returns: a time of day, "Mon, 02 Jan 2006
\* 15:04:05 GMT" in the format of the code, here "t1" or "t2".
Times == { <<"t","1">>, <<"t","2">> }

\* The status codes of the responses: the limits of the error range and
\* their neighbours, and the codes the operations expect.
NetStatusCodes == {200, 201, 204, 399, 400, 404, 505, 506}

XMLErrorBody ==
    [fmt |-> "xml", elems |-> ("Code" :> <<"c","1">>) @@ ("Message" :> <<"m","1">>)]
JSONErrorBody ==
    [fmt |-> "json",
     doc |-> ("odata.error" :> JSONObject(("code" :> JSONString(<<"c","1">>))))]

NetBodies == { EmptyBody, GarbageBody, XMLErrorBody, JSONErrorBody }

NetOutcomes ==
    { [fails |-> TRUE] }
    \cup [fails : {FALSE}, statusCode : NetStatusCodes, body : NetBodies,
          requestID : { <<"r","1">> }, readFails : BOOLEAN]

\* The header maps Client.exec is called with directly.
ExecHeaderMaps ==
    { (XMsDate :> <<"1">>),
      (XMsDate :> <<"1">>) @@ (ContentType :> <<"2"," ">>),
      (<<"x","-","m","s","-","a">> :> <<"1">>) @@ (<<"X","-","M","s","-","A">> :> <<"2"," ">>) }

\* The entities InsertEntity is called with: nil; a map with both keys; a
\* map holding a value without an encoding; a struct {PartitionKey, RowKey,
\* Id `json:"id" odata.type:"Edm.Guid"`}; a struct with a field without an
\* encoding; a nil, an int and a pointer in a StructTableEntity; a marshaler
\* that returns bytes, one that fails, and a nil one.
Entities ==
    { NilEntity,
      [variant |-> "Map",
       m |-> (PartitionKeyName :> [str |-> <<"p","k">>]) @@ (RowKeyName :> [str |-> <<"r","k">>])],
      [variant |-> "Map",
       m |-> (PartitionKeyName :> [str |-> <<"p","k">>]) @@ (<<"C","h">> :> [chan |-> TRUE])],
      [variant |-> "Struct",
       Val |-> [kind |-> "struct",
                fields |-> << Field(PartitionKeyName, <<>>, <<>>, [str |-> <<"p","k">>]),
                              Field(RowKeyName, <<>>, <<>>, [str |-> <<"r","k">>]),
                              Field(<<"I","d">>, <<"i","d">>, <<"E","d","m",".","G","u","i","d">>, [str |-> <<"g","1">>]) >>]],
      [variant |-> "Struct",
       Val |-> [kind |-> "struct",
                fields |-> << Field(PartitionKeyName, <<>>, <<>>, [str |-> <<"p","k">>]),
                              Field(<<"C","h">>, <<>>, <<>>, [chan |-> TRUE]) >>]],
      [variant |-> "Struct", Val |-> [kind |-> "nil"]],
      [variant |-> "Struct", Val |-> [kind |-> "int"]],
      [variant |-> "Struct", Val |-> [kind |-> "ptr"]],
      [variant |-> "Marshaled",
       Val |-> [kind |-> "marshaler", fails |-> FALSE,
                bytes |-> << <<PartitionKeyName, [str |-> <<"p","k">>]>>,
                             <<RowKeyName, [str |-> <<"r","k">>]>> >>]],
      [variant |-> "Marshaled",
       Val |-> [kind |-> "marshaler", fails |-> TRUE, bytes |-> <<>>]],
      [variant |-> "Marshaled", Val |-> [kind |-> "nil"]] }

\* "" and "t1"
TableNames == { <<>>, <<"t","1">> }
\* "" and "pk"
PartitionKeys == { <<>>, <<"p","k">> }
\* "" and "rk"
RowKeys == { <<>>, <<"r","k">> }

-----------------------------------------------------------------------------
(* The client calls *)

ClientExec ==
    /\ call = Idle
    /\ \E c \in TableClients, verb \in Verbs, url \in SignURLs,
          headers \in ExecHeaderMaps, signer \in Signers, errFunc \in ErrFuncs,
          net \in NetOutcomes :
         \E order \in Orders(headers) :
           call' = [op |-> "exec", c |-> c, verb |-> verb, url |-> url,
                    headers |-> headers, signer |-> signer, errFunc |-> errFunc,
                    net |-> net,
                    out |-> exec(c, verb, url, headers, signer, errFunc, order, net)]
    /\ UNCHANGED <<sign, dec, ent>>

QueryTables ==
    /\ call = Idle
    /\ \E c \in TableClients, d \in Times, net \in NetOutcomes :
         \E order \in Orders(baseHeaders(c, d)) :
           call' = [op |-> "QueryTables", c |-> c, net |-> net,
                    out |-> queryTables(c, d, order, net)]
    /\ UNCHANGED <<sign, dec, ent>>

CreateTable ==
    /\ call = Idle
    /\ \E c \in TableClients, tableName \in TableNames, d \in Times,
          net \in NetOutcomes :
         \E order \in Orders((ContentType :> jsonContentType) @@ baseHeaders(c, d)) :
           call' = [op |-> "CreateTable", c |-> c,
                    params |-> [TableName |-> tableName], net |-> net,
                    out |-> createTable(c, [TableName |-> tableName], d, order, net)]
    /\ UNCHANGED <<sign, dec, ent>>

DeleteTable ==
    /\ call = Idle
    /\ \E c \in TableClients, tableName \in TableNames, d \in Times,
          net \in NetOutcomes :
         \E order \in Orders(baseHeaders(c, d)) :
           call' = [op |-> "DeleteTable", c |-> c, tableName |-> tableName,
                    net |-> net,
                    out |-> deleteTable(c, tableName, d, order, net)]
    /\ UNCHANGED <<sign, dec, ent>>

InsertEntity ==
    /\ call = Idle
    /\ \E c \in TableClients, tableName \in TableNames, entity \in Entities,
          d \in Times, net \in NetOutcomes :
         \E order \in Orders((ContentType :> jsonContentType) @@ baseHeaders(c, d)) :
           call' = [op |-> "InsertEntity", c |-> c, tableName |-> tableName,
                    entity |-> entity, net |-> net,
                    out |-> insertEntity(c, tableName, entity, d, order, net)]
    /\ UNCHANGED <<sign, dec, ent>>

QueryEntity ==
    /\ call = Idle
    /\ \E c \in TableClients, tableName \in TableNames,
          partitionKey \in PartitionKeys, rowKey \in RowKeys,
          d \in Times, net \in NetOutcomes :
         \E order \in Orders((ContentType :> jsonContentType) @@ baseHeaders(c, d)) :
           call' = [op |-> "QueryEntity", c |-> c, tableName |-> tableName,
                    partitionKey |-> partitionKey, rowKey |-> rowKey, net |-> net,
                    out |-> queryEntity(c, tableName, partitionKey, rowKey, d,
                                        order, net)]
    /\ UNCHANGED <<sign, dec, ent>>

DeleteEntity ==
    /\ call = Idle
    /\ \E c \in TableClients, tableName \in TableNames,
          partitionKey \in PartitionKeys, rowKey \in RowKeys,
          d \in Times, net \in NetOutcomes :
         \E order \in Orders(baseHeaders(c, d)) :
           call' = [op |-> "DeleteEntity", c |-> c, tableName |-> tableName,
                    partitionKey |-> partitionKey, rowKey |-> rowKey, net |-> net,
                    out |-> deleteEntity(c, tableName, partitionKey, rowKey, d,
                                         order, net)]
    /\ UNCHANGED <<sign, dec, ent>>

CallReturn ==
    /\ call # Idle
    /\ call' = Idle
    /\ UNCHANGED <<sign, dec, ent>>

Next ==
    \/ ClientExec
    \/ QueryTables
    \/ CreateTable
    \/ DeleteTable
    \/ InsertEntity
    \/ QueryEntity
    \/ DeleteEntity
    \/ CallReturn

Spec == Init /\ [][Next]_vars

-----------------------------------------------------------------------------
(* C1: a failing pre-flight step *)

\* The call returned err without signing anything and without a request.
ReturnedBeforeExec(err) ==
    /\ ~call.out.panicked
    /\ call.out.err = err
    /\ ~call.out.execCalled
    /\ call.out.transportCalls = 0

\* C1: an operation given an empty tableName, partitionKey or rowKey or a nil
\* entity returns the parameter error of that argument; InsertEntity given
\* an entity whose jsonMarshal fails returns the error of jsonMarshal; exec
\* given a URL whose canonicalResource fails returns the signing error, and
\* getAuthorizationHeader has returned the empty string.  In each of these
\* cases the transport is not called.
C1_PreflightFailureSendsNothing ==
    /\ call.op \in {"InsertEntity", "QueryEntity", "DeleteEntity"} =>
         /\ call.tableName = <<>> =>
              ReturnedBeforeExec(azureParameterError("tableName"))
         /\ call.op = "InsertEntity" /\ call.tableName # <<>> =>
              /\ call.entity = NilEntity =>
                   ReturnedBeforeExec(azureParameterError("entity"))
              /\ call.entity # NilEntity /\ jsonMarshal(call.entity).outcome = "error" =>
                   ReturnedBeforeExec(jsonMarshal(call.entity).err)
         /\ call.op \in {"QueryEntity", "DeleteEntity"} /\ call.tableName # <<>> =>
              /\ call.partitionKey = <<>> =>
                   ReturnedBeforeExec(azureParameterError("partitionKey"))
              /\ call.partitionKey # <<>> /\ call.rowKey = <<>> =>
                   ReturnedBeforeExec(azureParameterError("rowKey"))
    /\ call.op = "exec" /\ ~ParseQuery(call.url.RawQuery).ok =>
         /\ call.out.err = SigningError
         /\ call.out.resp = NoResponse
         /\ call.out.auth = [ok |-> FALSE, val |-> <<>>]
         /\ call.out.transportCalls = 0

\* exec was given a URL whose query does not parse, and returned the signing
\* error without a request.
C1_Witness ==
    /\ call.op = "exec"
    /\ ~ParseQuery(call.url.RawQuery).ok
    /\ call.out.err = SigningError
    /\ call.out.transportCalls = 0

-----------------------------------------------------------------------------
(* Reading a canonical string back: what the properties below are stated on *)

\* The pieces of a split joined again, sep between each two.
RECURSIVE JoinWith(_, _)
JoinWith(ss, sep) ==
    IF ss = <<>> THEN <<>>
    ELSE IF Len(ss) = 1 THEN ss[1]
    ELSE ss[1] \o sep \o JoinWith(Tail(ss), sep)

Count(s, c) == Cardinality({ i \in 1..Len(s) : s[i] = c })

EndsWith(s, t) == Len(s) >= Len(t) /\ SubSeq(s, Len(s) - Len(t) + 1, Len(s)) = t

\* What follows the first c in s.
AfterFirst(s, c) == SubSeq(s, Index(s, c) + 1, Len(s))

\* The lines of a canonical header block, and the header name of a line.
Lines(out) == IF out = <<>> THEN <<>> ELSE SplitOn(out, "\n")
LineName(line) == SplitOn(line, ":")[1]

\* The name canonicalHeader gives a header.
CanonicalName(k) == TrimSpace(ToLower(k))

-----------------------------------------------------------------------------
(* C2 *)

\* C2: two calls of getAuthorizationHeader with identical verb, URL, key,
\* signer and header map return the identical authorization value, whatever
\* the order in which canonicalHeader visits the header map.
C2_SameInputsSameAuthorization ==
    (sign.op = "getAuthorizationHeader" /\ sign.n = 2) => sign.out = sign.prev

-----------------------------------------------------------------------------
(* C3 *)

\* The path as C3 describes it: every character outside letters, digits and
\* / , $ = replaced by its %XX, the others copied.
RECURSIVE PercentEscapedPath(_)
PercentEscapedPath(path) ==
    IF path = <<>> THEN <<>>
    ELSE (IF IsAlnum(Head(path)) \/ Head(path) \in {"/", ",", "$", "="}
          THEN <<Head(path)>>
          ELSE PercentByte(Ord[Head(path)])) \o PercentEscapedPath(Tail(path))

\* C3: canonicalResource returns '/' + accountName + the path with every
\* character outside letters, digits and / , $ = replaced by its %XX.
C3_PathPercentEscaped ==
    (sign.op = "canonicalResource" /\ sign.out.ok) =>
        HasPrefix(sign.out.val,
                  <<"/">> \o sign.accountName \o PercentEscapedPath(sign.url.Path))
        /\ (~ ("?" \in Range(sign.out.val)) =>
              sign.out.val = <<"/">> \o sign.accountName
                             \o PercentEscapedPath(sign.url.Path))

-----------------------------------------------------------------------------
(* C4 *)

\* The values of the comp parameters of a query, in the order they appear.
CompValues(query) ==
    LET ps == SelectSeq(ParseQuery(query).pairs, LAMBDA p : p[1] = Comp)
    IN [ i \in 1..Len(ps) |-> ps[i][2] ]

HasOtherParams(query) ==
    \E i \in 1..Len(ParseQuery(query).pairs) : ParseQuery(query).pairs[i][1] # Comp

\* The output carries no query parameter but at most one comp: at most one
\* '?', and what follows it is "comp=" and a value without '&', '=' or '?'.
OnlyCompInQuery(out) ==
    /\ Count(out, "?") <= 1
    /\ "?" \in Range(out) =>
         /\ HasPrefix(AfterFirst(out, "?"), Comp \o <<"=">>)
         /\ Count(AfterFirst(out, "?"), "=") = 1
         /\ ~ ("&" \in Range(AfterFirst(out, "?")))

\* C4 as stated: with a well-formed query, no comp parameter gives no '?'
\* in the output, a comp parameter with value v makes the output end with
\* exactly ?comp=v, and no other parameter is in the output.
C4_CompKeptAsIs ==
    (sign.op = "canonicalResource" /\ ParseQuery(sign.url.RawQuery).ok) =>
        LET vs == CompValues(sign.url.RawQuery)
        IN /\ sign.out.ok
           /\ vs = <<>> => ~ ("?" \in Range(sign.out.val))
           /\ \A i \in 1..Len(vs) :
                EndsWith(sign.out.val, <<"?">> \o Comp \o <<"=">> \o vs[i])
           /\ OnlyCompInQuery(sign.out.val)

\* C4 as amended: the first comp parameter decides.  When there is none or
\* its value is empty the output has no '?'; when its value v is not empty
\* the output ends with ?comp= and v query-escaped, which is v itself when v
\* needs no escaping.  No other parameter is in the output.
C4_FirstCompKeptEscaped ==
    (sign.op = "canonicalResource" /\ ParseQuery(sign.url.RawQuery).ok) =>
        LET vs == CompValues(sign.url.RawQuery)
        IN /\ sign.out.ok
           /\ (vs = <<>> \/ vs[1] = <<>>) => ~ ("?" \in Range(sign.out.val))
           /\ (vs # <<>> /\ vs[1] # <<>>) =>
                /\ EndsWith(sign.out.val,
                            <<"?">> \o Comp \o <<"=">> \o QueryEscape(vs[1]))
                /\ (\A c \in Range(vs[1]) : ~shouldEscape(c)) =>
                     EndsWith(sign.out.val, <<"?">> \o Comp \o <<"=">> \o vs[1])
           /\ OnlyCompInQuery(sign.out.val)

\* A query with a comp parameter and other parameters was canonicalized.
C4_Witness ==
    /\ sign.op = "canonicalResource"
    /\ sign.out.ok
    /\ CompValues(sign.url.RawQuery) # <<>>
    /\ CompValues(sign.url.RawQuery)[1] # <<>>
    /\ HasOtherParams(sign.url.RawQuery)

-----------------------------------------------------------------------------
(* C5 *)

\* C5: the header names in the output of canonicalHeader are in strictly
\* ascending order, and an empty header map gives the empty string.
C5_NamesStrictlyAscending ==
    sign.op = "canonicalHeader" =>
        LET ls == Lines(sign.out)
        IN /\ \A i \in 1..(Len(ls) - 1) :
                StrLess(LineName(ls[i]), LineName(ls[i + 1]))
           /\ DOMAIN sign.headers = {} => sign.out = <<>>

\* Two headers were written, and the map was visited in the opposite order.
C5_Witness ==
    /\ sign.op = "canonicalHeader"
    /\ Len(Lines(sign.out)) = 2
    /\ Len(sign.order) = 2
    /\ StrLess(CanonicalName(sign.order[2]), CanonicalName(sign.order[1]))

-----------------------------------------------------------------------------
(* C6 *)

\* C6 as stated: a header contributes a line exactly when its lowercased
\* name begins with x-ms-; the line is <lowercased name>:<value>; the lines
\* are separated by one newline, with none after the last.
C6_LowercasedNameDecides ==
    sign.op = "canonicalHeader" =>
        LET h  == sign.headers
            in == { k \in DOMAIN h : HasPrefix(ToLower(k), XMsPrefix) }
            ls == Lines(sign.out)
        IN /\ Len(ls) = Cardinality(in)
           /\ { ls[i] : i \in 1..Len(ls) } = { ToLower(k) \o <<":">> \o h[k] : k \in in }
           /\ sign.out = JoinWith(ls, NL)
           /\ in = {} => sign.out = <<>>

\* C6 as amended: the canonical name of a header is its name lowercased and
\* trimmed of surrounding white space.  Every canonical name that begins
\* with x-ms- has exactly one line, <canonical name>:<value>, the value being
\* that of a header with this canonical name, copied verbatim; the lines are
\* separated by one newline, with none after the last, and the output is
\* empty when no header matches.
C6_CanonicalNameDecides ==
    sign.op = "canonicalHeader" =>
        LET h  == sign.headers
            in == { k \in DOMAIN h : HasPrefix(CanonicalName(k), XMsPrefix) }
            ns == { CanonicalName(k) : k \in in }
            ls == Lines(sign.out)
        IN /\ Len(ls) = Cardinality(ns)
           /\ { LineName(ls[i]) : i \in 1..Len(ls) } = ns
           /\ \A i \in 1..Len(ls) :
                \E k \in in : ls[i] = CanonicalName(k) \o <<":">> \o h[k]
           /\ sign.out = JoinWith(ls, NL)
           /\ \A i \in 1..Len(ls) : ls[i] # <<>>
           /\ in = {} => sign.out = <<>>

\* A map with a matching header whose name has a leading space, next to a
\* header that does not match, was canonicalized.
C6_Witness ==
    /\ sign.op = "canonicalHeader"
    /\ \E k \in DOMAIN sign.headers :
         /\ HasPrefix(CanonicalName(k), XMsPrefix)
         /\ ~HasPrefix(ToLower(k), XMsPrefix)
    /\ \E k \in DOMAIN sign.headers : ~HasPrefix(CanonicalName(k), XMsPrefix)
    /\ sign.out # <<>>

-----------------------------------------------------------------------------
(* C7 *)

\* C7: the blob/queue string-to-sign is the six fields verb, Content-MD5,
\* Content-Type, Date, canonicalHeader(headers), canonicalResource(url), in
\* this order, separated by newlines; a header missing from the map gives an
\* empty field; nothing follows the last field.
C7_SixFieldsInOrder ==
    (sign.op = "canonicalizedString" /\ sign.signer = "blobQueue"
       /\ ParseQuery(sign.url.RawQuery).ok) =>
        LET h     == sign.headers
            field(k) == IF k \in DOMAIN h THEN h[k] ELSE <<>>
            parts == SplitOn(sign.out.val, "\n")
            n     == Len(parts)
        IN /\ sign.out.ok
           /\ n >= 6
           /\ parts[1] = sign.verb
           /\ parts[2] = field(ContentMD5)
           /\ parts[3] = field(ContentType)
           /\ parts[4] = field(Date)
           /\ JoinWith(SubSeq(parts, 5, n - 1), NL) = canonicalHeader(h, sign.order)
           /\ parts[n] = canonicalResource(sign.accountName, sign.url).val
           /\ Count(sign.out.val, "\n") = 5 + Count(canonicalHeader(h, sign.order), "\n")
           /\ sign.out.val[Len(sign.out.val)] # "\n"

\* A blob/queue string was built from a map that has a Content-Type and an
\* x-ms- header, and neither Content-MD5 nor Date.
C7_Witness ==
    /\ sign.op = "canonicalizedString"
    /\ sign.signer = "blobQueue"
    /\ sign.out.ok
    /\ ContentType \in DOMAIN sign.headers
    /\ ~ (ContentMD5 \in DOMAIN sign.headers)
    /\ ~ (Date \in DOMAIN sign.headers)
    /\ canonicalHeader(sign.headers, sign.order) # <<>>

-----------------------------------------------------------------------------
(* C8 *)

\* The map without one of its keys.
Without(h, k) == [ x \in DOMAIN h \ {k} |-> h[x] ]

\* C8: the table string-to-sign is the x-ms-date value, a newline and
\* canonicalResource(url): two lines, nothing after the second; another verb
\* or the removal of any other header leaves it unchanged.
C8_DateAndResource ==
    (sign.op = "canonicalizedString" /\ sign.signer = "table"
       /\ ParseQuery(sign.url.RawQuery).ok) =>
        LET h     == sign.headers
            parts == SplitOn(sign.out.val, "\n")
        IN /\ sign.out.ok
           /\ Len(parts) = 2
           /\ parts[1] = (IF XMsDate \in DOMAIN h THEN h[XMsDate] ELSE <<>>)
           /\ parts[2] = canonicalResource(sign.accountName, sign.url).val
           /\ \A verb \in Verbs :
                tableSigner_canonicalizedString(sign.accountName, verb, h, sign.url,
                                                sign.order) = sign.out
           /\ \A k \in DOMAIN h \ {XMsDate} :
                tableSigner_canonicalizedString(sign.accountName, sign.verb,
                                                Without(h, k), sign.url, <<>>) = sign.out

\* A table string was built from a map that has x-ms-date and another
\* x-ms- header.
C8_Witness ==
    /\ sign.op = "canonicalizedString"
    /\ sign.signer = "table"
    /\ sign.out.ok
    /\ XMsDate \in DOMAIN sign.headers
    /\ \E k \in DOMAIN sign.headers : k # XMsDate /\ HasPrefix(CanonicalName(k), XMsPrefix)

-----------------------------------------------------------------------------
(* C9: when the decoder is called *)

\* The response exec got has a status code from 400 to 505.
C9_InRange == call.net.statusCode >= 400 /\ call.net.statusCode <= 505

\* exec signed the request and the transport returned a response.
C9_GotResponse == call.op = "exec" /\ call.out.auth.ok /\ ~call.net.fails

\* C9 as stated: exec calls errFunc if and only if the status code is in
\* [400, 505] and the body of the response is not empty; in that range an
\* empty body gives the error "service returned without a response body"
\* and no call of errFunc; outside the range errFunc is not called and the
\* error is nil.
C9_DecoderIffErrorStatusAndBody ==
    C9_GotResponse =>
      /\ call.out.decoderCalls = 1 <=> (C9_InRange /\ BodyLen(call.net.body) # 0)
      /\ C9_InRange /\ BodyLen(call.net.body) = 0 =>
           call.out.err = NoBodyError /\ call.out.decoderCalls = 0
      /\ ~C9_InRange => call.out.decoderCalls = 0 /\ call.out.err = NoErr

\* C9, amended: exec calls errFunc, once, if and only if the status code is
\* in [400, 505], the body was read without an error and is not empty, and
\* then returns the error of errFunc; in that range a body read as empty
\* gives the error "service returned without a response body", and a body
\* that fails to be read gives the error of the read and no response, both
\* without a call of errFunc; outside the range the body is not read,
\* errFunc is not called and the error is nil.
C9_DecoderIffErrorStatusAndBodyRead ==
    C9_GotResponse =>
      /\ call.out.decoderCalls \in {0, 1}
      /\ call.out.decoderCalls = 1 <=>
           (C9_InRange /\ ~call.net.readFails /\ BodyLen(call.net.body) # 0)
      /\ call.out.decoderCalls = 1 =>
           call.out.err = errFuncCall(call.errFunc, call.net.body,
                                      call.net.statusCode, call.net.requestID)
      /\ C9_InRange /\ ~call.net.readFails /\ BodyLen(call.net.body) = 0 =>
           call.out.err = NoBodyError
      /\ C9_InRange /\ call.net.readFails =>
           call.out.err = ReadError /\ call.out.resp = NoResponse
      /\ ~C9_InRange =>
           call.out.err = NoErr /\ ~call.out.netRead

\* A response with status 505 and a body: errFunc was called.
C9_Witness ==
    /\ C9_GotResponse
    /\ call.net.statusCode = 505
    /\ BodyLen(call.net.body) # 0
    /\ call.out.decoderCalls = 1

-----------------------------------------------------------------------------
(* C10 *)

\* The body is well formed for the decoder that was called.
C10_WellFormed ==
    \/ dec.op = "serviceErrFromXML" /\ dec.body.fmt = "xml"
    \/ dec.op = "tableErrFromJSON" /\ dec.body.fmt = "json"

\* C10: from a well-formed body, status code s and request id r the decoder
\* returns a structured error with StatusCode s, RequestID r and the Code and
\* Message of the body, whatever else the body contains; from a malformed
\* body it returns a plain deserialization error.
C10_StructuredErrorFromWellFormedBody ==
    dec.op \in {"serviceErrFromXML", "tableErrFromJSON"} =>
        IF ~C10_WellFormed THEN dec.out.type = "error"
        ELSE /\ dec.out.type # "error"
             /\ dec.out.StatusCode = dec.statusCode
             /\ dec.out.RequestID = dec.requestID
             /\ dec.op = "serviceErrFromXML" =>
                  /\ dec.out.type = "AzureStorageServiceError"
                  /\ dec.out.Code = Elem(dec.body.elems, "Code")
                  /\ dec.out.Message = Elem(dec.body.elems, "Message")
             /\ dec.op = "tableErrFromJSON" =>
                  /\ dec.out.type = "AzureStorageTableServiceError"
                  /\ \A o \in { dec.body.doc[k].obj :
                                 k \in DOMAIN dec.body.doc \cap {"odata.error"} } :
                       /\ "code" \in DOMAIN o => dec.out.Code = o["code"].str
                       /\ "message" \in DOMAIN o =>
                            /\ "lang" \in DOMAIN o["message"].obj =>
                                 dec.out.Message.Lang = o["message"].obj["lang"].str
                            /\ "value" \in DOMAIN o["message"].obj =>
                                 dec.out.Message.Value = o["message"].obj["value"].str

-----------------------------------------------------------------------------
(* C11, C12: the table operations and the transport *)

TableOps ==
    {"QueryTables", "CreateTable", "DeleteTable",
     "InsertEntity", "QueryEntity", "DeleteEntity"}

\* The transport was called and returned a response, hence a body.
C11_GotBody ==
    call.op \in TableOps /\ call.out.transportCalls > 0 /\ ~call.net.fails

\* C11: when a table operation returns, whatever the transport did (a
\* success status, an error status with a body that decodes, with one that
\* does not, with an empty one, a body whose read fails), the body of a
\* response obtained from the transport is closed, and no body is open.
C11_BodyClosedOnReturn ==
    call.op \in TableOps =>
      /\ call.out.netBody # "open"
      /\ C11_GotBody => call.out.netBody = "closed"

\* QueryTables got a response with status 200 and returned with its body
\* closed.
C11_Witness ==
    /\ call.op = "QueryTables"
    /\ C11_GotBody
    /\ call.net.statusCode = 200
    /\ call.out.netBody = "closed"

\* The arguments of the call are valid and the entity was serialized.
C12_PreflightSucceeded ==
    /\ call.op = "InsertEntity" =>
         /\ call.tableName # <<>>
         /\ call.entity # NilEntity
         /\ jsonMarshal(call.entity).outcome = "ok"
    /\ call.op \in {"QueryEntity", "DeleteEntity"} =>
         call.tableName # <<>> /\ call.partitionKey # <<>> /\ call.rowKey # <<>>

\* C12: a call of a table operation calls the transport at most once:
\* once when the arguments are valid, the entity is serialized and the
\* request is signed, otherwise not at all; a transport error, an error
\* status or a failure to decode is not followed by a second call.
C12_TransportAtMostOnce ==
    call.op \in TableOps =>
      /\ call.out.transportCalls \in {0, 1}
      /\ C12_PreflightSucceeded => call.out.execCalled
      /\ call.out.transportCalls = 1 <=>
           (C12_PreflightSucceeded /\ call.out.auth.ok)

\* InsertEntity sent its request, the transport failed, and the error was
\* returned after that one call.
C12_Witness ==
    /\ call.op = "InsertEntity"
    /\ call.net.fails
    /\ call.out.err = TransportError
    /\ call.out.transportCalls = 1

-----------------------------------------------------------------------------
(* Reading a JSON object back *)

\* The keys of the object written, and the value written under a key.
OutKeys == { ent.out.bytes[i][1] : i \in DOMAIN ent.out.bytes }
OutValue(k) == ent.out.bytes[CHOOSE i \in DOMAIN ent.out.bytes : ent.out.bytes[i][1] = k][2]

\* StructTableEntity.jsonMarshal was called on a struct and returned bytes.
StructMarshalled ==
    /\ ent.op = "StructTableEntity.jsonMarshal"
    /\ ent.entity.Val.kind = "struct"
    /\ ent.out.outcome = "ok"

\* The fields of that struct, and those with an odata.type annotation.
InFields == ent.entity.Val.fields
Annotated == { i \in 1..Len(InFields) : InFields[i].odata # <<>> }

\* The resolved name of a field: its json tag up to the first comma when it
\* has a json tag, its declared name otherwise.
ResolvedName(f) ==
    IF f.json = <<>> THEN f.Name
    ELSE IF Count(f.json, ",") = 0 THEN f.json
    ELSE SubSeq(f.json, 1, Index(f.json, ",") - 1)

SidecarKey(f) == ResolvedName(f) \o ODataTypeSuffix

\* The keys under which encoding/json writes the fields of the struct.
SerializedKeys == { EncodedName(InFields[i]) : i \in Encoded(InFields) }

-----------------------------------------------------------------------------
(* C13 *)

\* The object holds the keys of the serialized fields, and its keys ending
\* in @odata.type are sidecar keys of annotated fields or keys of fields.
C13_KeysAccountedFor ==
    /\ SerializedKeys \subseteq OutKeys
    /\ \A k \in OutKeys :
         EndsWith(k, ODataTypeSuffix) =>
           \/ k \in SerializedKeys
           \/ \E i \in Annotated : k = SidecarKey(InFields[i])

\* C13 as stated: for every field with a non-empty odata.type annotation
\* the object written by StructTableEntity.jsonMarshal has the key
\* <resolvedName>@odata.type with the annotation as its value, and it has
\* no other @odata.type key next to the keys of the serialized fields.
C13_SidecarForEveryAnnotation ==
    StructMarshalled =>
      /\ \A i \in Annotated :
           /\ SidecarKey(InFields[i]) \in OutKeys
           /\ OutValue(SidecarKey(InFields[i])) = [str |-> InFields[i].odata]
      /\ C13_KeysAccountedFor

\* The last field, in the order of declaration, whose sidecar key is k.
LastWithSidecar(k) ==
    CHOOSE i \in Annotated :
      /\ SidecarKey(InFields[i]) = k
      /\ \A j \in Annotated : SidecarKey(InFields[j]) = k => j <= i

\* C13, amended: for every field with a non-empty odata.type annotation the
\* object has the key <resolvedName>@odata.type, and its value is the
\* annotation of the last declared field that resolves to that name; it
\* has no other @odata.type key next to the keys of the serialized fields.
C13_SidecarOfLastAnnotation ==
    StructMarshalled =>
      /\ \A i \in Annotated :
           /\ SidecarKey(InFields[i]) \in OutKeys
           /\ OutValue(SidecarKey(InFields[i])) =
                [str |-> InFields[LastWithSidecar(SidecarKey(InFields[i]))].odata]
      /\ C13_KeysAccountedFor

\* Two annotated fields of a struct resolve to one name, and the sidecar
\* key carries the annotation of the later one.
C13_Witness ==
    /\ StructMarshalled
    /\ \E i, j \in Annotated :
         /\ i < j
         /\ SidecarKey(InFields[i]) = SidecarKey(InFields[j])
         /\ InFields[i].odata # InFields[j].odata
         /\ OutValue(SidecarKey(InFields[i])) = [str |-> InFields[j].odata]

-----------------------------------------------------------------------------
(* C14 *)

\* jsonMarshal of a map or of a struct returned bytes.
C14_ObjectWritten ==
    /\ ent.op \in {"MapTableEntity.jsonMarshal", "StructTableEntity.jsonMarshal"}
    /\ ent.out.outcome = "ok"

\* C14: the keys of the object MapTableEntity.jsonMarshal and
\* StructTableEntity.jsonMarshal write are in strictly ascending byte
\* order, hence each written once, whatever the order of the map or of the
\* declaration of the fields; the keys written for a map are the keys of
\* the map.
C14_KeysStrictlyAscending ==
    C14_ObjectWritten =>
      /\ \A i \in 1..(Len(ent.out.bytes) - 1) :
           StrLess(ent.out.bytes[i][1], ent.out.bytes[i + 1][1])
      /\ ent.op = "MapTableEntity.jsonMarshal" => OutKeys = DOMAIN ent.entity.m

\* A struct whose first field is declared before a field with a smaller
\* name was written with the smaller key first.
C14_Witness ==
    /\ StructMarshalled
    /\ Len(InFields) >= 2
    /\ InFields[1].json = <<>> /\ InFields[2].json = <<>>
    /\ StrLess(InFields[2].Name, InFields[1].Name)
    /\ Len(ent.out.bytes) >= 2
    /\ ent.out.bytes[1][1] = InFields[2].Name

-----------------------------------------------------------------------------
(* C15 *)

\* C15: StructTableEntity.jsonMarshal given nil, or a value that is not a
\* struct (a pointer to a struct included), does not panic and returns no
\* bytes and an error, the one of its initial checks: nothing was
\* serialized.
C15_NotAStructIsAnError ==
    ent.op = "StructTableEntity.jsonMarshal" /\ ent.entity.Val.kind # "struct" =>
      /\ ent.out.outcome = "error"
      /\ ent.out.bytes = <<>>
      /\ ent.out.err = IF ent.entity.Val.kind = "nil" THEN NilStructError
                       ELSE NotAStructError

\* StructTableEntity.jsonMarshal was given a pointer and returned the error
\* of a value that is not a struct.
C15_Witness ==
    /\ ent.op = "StructTableEntity.jsonMarshal"
    /\ ent.entity.Val.kind = "ptr"
    /\ ent.out.outcome = "error"
    /\ ent.out.err = NotAStructError

-----------------------------------------------------------------------------
(* C16 *)

\* C16: whichever the variant of the entity, the bytes a successful
\* jsonMarshal returns are a flat JSON object, no value of which is an
\* object or an array, with the keys PartitionKey and RowKey.
C16_FlatObjectWithBothKeys ==
    ent # Idle /\ ent.out.outcome = "ok" =>
      /\ PartitionKeyName \in OutKeys
      /\ RowKeyName \in OutKeys
      /\ \A i \in DOMAIN ent.out.bytes :
           DOMAIN ent.out.bytes[i][2] \cap {"arr", "obj"} = {}

-----------------------------------------------------------------------------
(* C17 *)

\* C17: in the object a successful StructTableEntity.jsonMarshal writes,
\* every key <n>@odata.type has a name n that is not empty and is itself a
\* key of the object, whatever the fields of the struct: with a json tag
\* of options only, omitted because empty, tagged "-", or unexported.
C17_NoOrphanSidecar ==
    StructMarshalled =>
      \A k \in OutKeys :
        EndsWith(k, ODataTypeSuffix) =>
          /\ Len(k) > Len(ODataTypeSuffix)
          /\ SubSeq(k, 1, Len(k) - Len(ODataTypeSuffix)) \in OutKeys

=============================================================================
